---- MODULE Spec2Model ----
(***************************************************************************)
(* Model of bert_multitask_learning/input_fn.py: the train/eval input      *)
(* pipeline, the predict input pipeline and the serving generator.         *)
(*                                                                         *)
(* Strings are sequences of characters, Python dictionaries are functions  *)
(* from key strings to values, Python objects that are shared by reference *)
(* live in `heap`.  tf.data stages are modelled by their documented        *)
(* element-wise behaviour; their random choices are nondeterministic.      *)
(***************************************************************************)
EXTENDS Integers, Sequences, FiniteSets, TLC

\* ---------------------------------------------------------------- bounds
MaxDocLen == 2      \* longest raw text line given to to_serving_input
MaxItems == 2       \* longest input of to_serving_input
MaxPredictItems == 3 \* longest input of predict_input_fn
MaxTokens == 2      \* most words in a predict or training text
MaxSeqLen == 4      \* largest max_seq_len
MaxBatch == 2       \* largest batch_size and bucket batch size
MaxShuffle == 2     \* largest shuffle_buffer
MaxRecords == 2     \* most examples of one task

\* ------------------------------------------------------- generic helpers
Range(s) == {s[i] : i \in 1..Len(s)}

Max(a, b) == IF a >= b THEN a ELSE b

SeqsUpTo(S, n) == UNION {[1..k -> S] : k \in 0..n}

RECURSIVE Repeat(_, _)
Repeat(x, n) == IF n <= 0 THEN <<>> ELSE <<x>> \o Repeat(x, n - 1)

\* ------------------------------------------------------------ raw inputs
\* "a" is an alphanumeric character, " " and "\n" are whitespace.
Chars == {"a", " "}

Docs == SeqsUpTo(Chars, MaxDocLen)

IsAlnum(c) == c = "a"

IsSpace(c) == c \in {" ", "\n"}

\* One element of a Python input list.
StrElem(d) == [kind |-> "str", val |-> d, keys |-> {}]

DictElem(ks, text) == [kind |-> "dict", val |-> text, keys |-> ks]

OtherElem == [kind |-> "other", val |-> <<>>, keys |-> {}]

\* The argument input_file_or_list: a path to a text file (whose lines are
\* kept in the value) or an in-memory list.
PathArg(lines) == [kind |-> "path", content |-> lines]

ListArg(items) == [kind |-> "list", content |-> items]

\* open(path).readlines(): every line keeps its terminator.
ReadLines(lines) == [i \in 1..Len(lines) |-> StrElem(Append(lines[i], "\n"))]

\* if isinstance(input_file_or_list, str): readlines() else the list itself
ResolveInputs(arg) ==
    IF arg.kind = "path" THEN ReadLines(arg.content) ELSE arg.content

\* ------------------------------------------- preprocessing collaborators
\* utils.cluster_alphnum: consecutive alphanumeric characters form one
\* cluster, every other character is a cluster of its own.
RECURSIVE cluster_alphnum_from(_, _, _, _)
cluster_alphnum_from(text, i, acc, last_is_alphnum) ==
    IF i > Len(text) THEN acc
    ELSE IF IsAlnum(text[i])
         THEN IF last_is_alphnum
              THEN cluster_alphnum_from(text, i + 1,
                       [acc EXCEPT ![Len(acc)] = Append(@, text[i])], TRUE)
              ELSE cluster_alphnum_from(text, i + 1,
                       Append(acc, <<text[i]>>), TRUE)
         ELSE cluster_alphnum_from(text, i + 1, Append(acc, <<text[i]>>), FALSE)

cluster_alphnum(text) == cluster_alphnum_from(text, 1, <<>>, FALSE)

\* tokenize_text_with_seqs with target None: whitespace clusters produce no
\* token, every other cluster one token.
tokenize_text_with_seqs(inputs_a) ==
    SelectSeq(inputs_a, LAMBDA cl : ~IsSpace(cl[1]))

\* truncate_seq_pair with tokens_b None: room is left for [CLS] and [SEP].
truncate_seq_pair(tokens, max_length) ==
    IF Len(tokens) > max_length - 2
    THEN SubSeq(tokens, 1, max_length - 2)
    ELSE tokens

\* The special tokens; a token is a sequence of characters, and a special
\* token is a one-element sequence holding its name.
CLS == <<"[CLS]">>

SEP == <<"[SEP]">>

PAD == <<"[PAD]">>

\* add_special_tokens_with_seqs with tokens_b None.
add_special_tokens_with_seqs(tokens_a) ==
    [tokens |-> <<CLS>> \o tokens_a \o <<SEP>>,
     segment_ids |-> Repeat(0, Len(tokens_a) + 2)]

\* create_mask_and_padding: mask 1 on tokens, 0 on padding up to max_length;
\* with dynamic padding the lengths are left as they are.
create_mask_and_padding(tokens, segment_ids, max_length, dynamic_padding) ==
    LET pad == IF dynamic_padding THEN 0 ELSE max_length - Len(tokens)
    IN  [input_mask |-> Repeat(1, Len(tokens)) \o Repeat(0, pad),
         tokens |-> tokens \o Repeat(PAD, pad),
         segment_ids |-> segment_ids \o Repeat(0, pad)]

\* tokenizer.convert_tokens_to_ids over a four-word vocabulary plus "a".
TokenId(tok) ==
    CASE tok = PAD -> 0
      [] tok = CLS -> 2
      [] tok = SEP -> 3
      [] tok = <<"a">> -> 4
      [] OTHER -> 1

convert_tokens_to_ids(tokens) == [i \in 1..Len(tokens) |-> TokenId(tokens[i])]

ServingKeys == {"input_ids", "input_mask", "segment_ids"}

\* The preprocessing chain for one text: cluster, tokenize, truncate, add
\* the special tokens, mask and pad, convert to ids.
TextFeatures(doc, max_seq_len, dynamic_padding) ==
    LET inputs_a == cluster_alphnum(doc)
        tokens0 == tokenize_text_with_seqs(inputs_a)
        tokens_a == truncate_seq_pair(tokens0, max_seq_len)
        sp == add_special_tokens_with_seqs(tokens_a)
        pm == create_mask_and_padding(sp.tokens, sp.segment_ids, max_seq_len,
                                      dynamic_padding)
    IN  [k \in ServingKeys |->
            CASE k = "input_ids" -> convert_tokens_to_ids(pm.tokens)
              [] k = "input_mask" -> pm.input_mask
              [] k = "segment_ids" -> pm.segment_ids]

\* The body of the loop of to_serving_input up to the three assignments
\* (lines 157-173): the entries written to data_dict for one doc.
ServingFeatures(doc, max_seq_len) == TextFeatures(doc, max_seq_len, FALSE)

\* d.update(u) for dictionaries as functions.
DictUpdate(d, u) ==
    [k \in DOMAIN d \cup DOMAIN u |-> IF k \in DOMAIN u THEN u[k] ELSE d[k]]

EmptyDict == [k \in {} |-> <<>>]

\* ----------------------------------------------------------------- state
VARIABLES
    fn,                  \* the function of input_fn.py under call
    config,              \* the Params object of the call
    mode,                \* the mode argument
    pc,                  \* position of the running call / iteration
    raised,              \* where an exception was raised, "" if none
    \* predict_input_fn and to_serving_input
    input_file_or_list,  \* the argument
    inputs,              \* the resolved input list
    pos,                 \* loop iterations done / elements generated
    heap,                \* object id -> dictionary contents
    data_dict,           \* object id bound to the local name data_dict
    yielded,             \* object ids received by the consumer, in order
    yieldedAt,           \* contents of each yielded dictionary when yielded
    part_fn,             \* the encoder selected by predict_input_fn
    example_list,        \* the example_list argument given to part_fn
    data_list,           \* the encoded records
    \* train_eval_input_fn
    persisted,           \* task -> the record file of the task
    calls,               \* number of calls of train_eval_input_fn so far
    readLog,             \* what read_tfrecord returned, per call
    dataset_dict,        \* task -> the dataset read_tfrecord returned
    stages,              \* the dataset transformations applied, in order
    batch_size_used,     \* the argument given to dataset.batch, 0 if none
    cursor,              \* task -> records of its dataset already sampled
    sampled,             \* output of sample_from_datasets so far
    shuffleBuf,          \* contents of the shuffle buffer
    toBatch,             \* elements that reached the batching stage so far
    open,                \* the unfinished batch of each bucket
    \* both pipelines
    batches              \* the batches produced so far

callVars == <<fn, config, mode>>

servingVars == <<heap, data_dict, yielded, yieldedAt>>

predictVars == <<part_fn, example_list, data_list>>

inputVars == <<input_file_or_list, inputs, pos>>

fileVars == <<persisted, calls, readLog>>

streamVars == <<dataset_dict, stages, batch_size_used, cursor, sampled,
                shuffleBuf, toBatch, open>>

vars == <<callVars, pc, raised, inputVars, servingVars, predictVars, fileVars,
          streamVars, batches>>

Tasks == {"t1", "t2"}

\* The values of the variables a function does not use.
NoInput == /\ input_file_or_list = ListArg(<<>>)
           /\ inputs = <<>>
           /\ pos = 0

NoServing == /\ heap = <<>>
             /\ data_dict = 0
             /\ yielded = <<>>
             /\ yieldedAt = <<>>

NoPredict == /\ part_fn = ""
             /\ example_list = <<>>
             /\ data_list = <<>>

NoFiles == /\ persisted = [t \in Tasks |-> [state |-> "absent",
                                            records |-> <<>>]]
           /\ calls = 0
           /\ readLog = <<>>

NoStream == /\ dataset_dict = [t \in Tasks |-> <<>>]
            /\ stages = <<>>
            /\ batch_size_used = 0
            /\ cursor = [t \in Tasks |-> 0]
            /\ sampled = <<>>
            /\ shuffleBuf = {}
            /\ toBatch = <<>>
            /\ open = <<>>

\* ------------------------------------------------------- to_serving_input
ServingConfigs == [max_seq_len : 3..MaxSeqLen]

ServingArgs ==
    {PathArg(l) : l \in SeqsUpTo(Docs, MaxItems)}
    \cup {ListArg([i \in 1..Len(l) |-> StrElem(l[i])]) :
             l \in SeqsUpTo(Docs, MaxItems)}

ServingInit ==
    /\ fn = "to_serving_input"
    /\ config \in ServingConfigs
    /\ mode = "predict"
    /\ input_file_or_list \in ServingArgs
    /\ inputs = <<>>
    /\ pc = "new"
    /\ raised = ""
    /\ pos = 0
    /\ NoServing /\ NoPredict /\ NoFiles /\ NoStream
    /\ batches = <<>>

\* First next() on the generator: lines 146-155 run (the input is resolved,
\* data_dict = {} is created once), then the loop is entered.
ServingEnter ==
    /\ fn = "to_serving_input"
    /\ pc = "new"
    /\ inputs' = ResolveInputs(input_file_or_list)
    /\ heap' = Append(heap, EmptyDict)
    /\ data_dict' = Len(heap) + 1
    /\ pc' = "loop"
    /\ UNCHANGED <<callVars, raised, input_file_or_list, pos, yielded,
                   yieldedAt, predictVars, fileVars, streamVars, batches>>

\* A line is empty when it holds nothing but its terminator.
NonEmptyLine(e) == e.val \notin {<<>>, <<"\n">>}

\* ServingYield with empty lines skipped instead of encoded.
ServingYieldSkipEmpty ==
    /\ fn = "to_serving_input"
    /\ pc = "loop"
    /\ pos < Len(inputs)
    /\ LET doc == inputs[pos + 1].val
           new == DictUpdate(heap[data_dict],
                             ServingFeatures(doc, config.max_seq_len))
       IN  IF NonEmptyLine(inputs[pos + 1])
           THEN /\ heap' = [heap EXCEPT ![data_dict] = new]
                /\ yielded' = Append(yielded, data_dict)
                /\ yieldedAt' = Append(yieldedAt, new)
           ELSE UNCHANGED <<heap, yielded, yieldedAt>>
    /\ pos' = pos + 1
    /\ UNCHANGED <<callVars, pc, raised, input_file_or_list, inputs, data_dict,
                   predictVars, fileVars, streamVars, batches>>

\* for doc in inputs: one iteration, ending at the yield (lines 156-174).
\* The three assignments write the object data_dict names, and that same
\* object is handed to the consumer.
ServingYield ==
    /\ fn = "to_serving_input"
    /\ pc = "loop"
    /\ pos < Len(inputs)
    /\ LET doc == inputs[pos + 1].val
           new == DictUpdate(heap[data_dict],
                             ServingFeatures(doc, config.max_seq_len))
       IN  /\ heap' = [heap EXCEPT ![data_dict] = new]
           /\ yielded' = Append(yielded, data_dict)
           /\ yieldedAt' = Append(yieldedAt, new)
    /\ pos' = pos + 1
    /\ UNCHANGED <<callVars, pc, raised, input_file_or_list, inputs, data_dict,
                   predictVars, fileVars, streamVars, batches>>

\* The loop ends: the generator is exhausted.
ServingStop ==
    /\ fn = "to_serving_input"
    /\ pc = "loop"
    /\ pos = Len(inputs)
    /\ pc' = "stopped"
    /\ UNCHANGED <<callVars, raised, inputVars, servingVars, predictVars,
                   fileVars, streamVars, batches>>

ServingNext == ServingEnter \/ ServingYield \/ ServingStop

SpecServing == ServingInit /\ [][ServingNext]_vars

\* What a consumer that kept every yielded dictionary holds now.
Collected == [i \in 1..Len(yielded) |-> heap[yielded[i]]]

NonEmptyCount == Cardinality({i \in 1..Len(inputs) : NonEmptyLine(inputs[i])})

\* C2 (as stated): once the generator is exhausted, the number of yielded
\* dictionaries equals the number of non-empty input lines.
C2_YieldsPerNonEmptyLine ==
    (fn = "to_serving_input" /\ pc = "stopped")
        => Len(yielded) = NonEmptyCount

\* C2 (amended): to_serving_input yields one dictionary per input line or
\* item, empty ones included, in input order: after k iterations k
\* dictionaries were yielded, the i-th held, when yielded, exactly the keys
\* input_ids, input_mask and segment_ids with the encoding of item i, and the
\* generator stops only after all items.
C2_OnePerInputItem ==
    fn = "to_serving_input" =>
        /\ Len(yielded) = pos
        /\ Len(yieldedAt) = pos
        /\ pos <= Len(inputs)
        /\ \A i \in 1..Len(yieldedAt) :
              /\ DOMAIN yieldedAt[i] = ServingKeys
              /\ yieldedAt[i] =
                    ServingFeatures(inputs[i].val, config.max_seq_len)
        /\ (pc = "stopped" => Len(yielded) = Len(inputs))

\* An exhausted run over two lines, one of them empty, that yielded twice.
C2_Witness ==
    /\ fn = "to_serving_input"
    /\ pc = "stopped"
    /\ Len(inputs) = 2
    /\ NonEmptyCount = 1
    /\ Len(yielded) = 2

\* C9: every dictionary the consumer holds still has the contents it was
\* yielded with, the encoding of its own item.
C9_YieldedNotMutated ==
    fn = "to_serving_input" =>
        \A i \in 1..Len(yielded) :
            /\ Collected[i] = yieldedAt[i]
            /\ Collected[i] = ServingFeatures(inputs[i].val, config.max_seq_len)

\* ------------------------------------------------------- predict_input_fn
\* A text of k one-letter words.
RECURSIVE Text(_)
Text(k) == IF k = 0 THEN <<>>
           ELSE IF k = 1 THEN <<"a">>
           ELSE Text(k - 1) \o <<" ", "a">>

PredictTexts == {Text(k) : k \in 0..MaxTokens}

\* Input elements: plain strings, a dictionary with key 'a', dictionaries
\* without it (one key per modality), and a value of another type.
PredictElems ==
    {StrElem(t) : t \in PredictTexts}
    \cup {DictElem({"a"}, Text(1)),
          DictElem({"text"}, Text(1)),
          DictElem({"text", "image"}, Text(2)),
          OtherElem}

PredictArgs ==
    {PathArg(l) : l \in SeqsUpTo(PredictTexts, MaxPredictItems)}
    \cup {ListArg(l) : l \in SeqsUpTo(PredictElems, MaxPredictItems)}

PredictConfigs ==
    [max_seq_len : {MaxSeqLen}, batch_size : 1..MaxBatch,
     dynamic_padding : BOOLEAN]

\* The outcome of encoding one example: a record, or an exception.
Ok(rec) == [ok |-> TRUE, rec |-> rec]

Raise == [ok |-> FALSE, rec |-> EmptyDict]

\* What an encoder does with an element it does not support is not fixed by
\* this file: it raises, or encodes the element as an empty text.
Unsupported(cfg) ==
    {Raise, Ok(TextFeatures(<<>>, cfg.max_seq_len, cfg.dynamic_padding))}

\* create_bert_features on one example (predict mode: no label).
create_bert_features(e, cfg) ==
    IF e.kind = "str" \/ (e.kind = "dict" /\ "a" \in e.keys)
    THEN {Ok(TextFeatures(e.val, cfg.max_seq_len, cfg.dynamic_padding))}
    ELSE Unsupported(cfg)

\* The features of one non-text modality.
ModalFeatures(m) ==
    [k \in {m \o "_input", m \o "_mask", m \o "_segment_ids"} |-> <<1>>]

\* create_multimodal_bert_features on one example: the text features, and
\* three features for every other modality of the dictionary.
create_multimodal_bert_features(e, cfg) ==
    IF e.kind = "dict" /\ "a" \notin e.keys
    THEN {Ok(DictUpdate(
              TextFeatures(IF "text" \in e.keys THEN e.val ELSE <<>>,
                           cfg.max_seq_len, cfg.dynamic_padding),
              IF "image" \in e.keys THEN ModalFeatures("image")
                                    ELSE EmptyDict))}
    ELSE Unsupported(cfg)

\* SelectEncoder on any dictionary, whatever its keys.
SelectEncoderAnyDict(ins) ==
    IF ins[1].kind = "dict"
    THEN "create_multimodal_bert_features"
    ELSE "create_bert_features"

\* Lines 98-113: the encoder is chosen from the first element.
SelectEncoder(ins) ==
    IF ins[1].kind = "dict" /\ "a" \notin ins[1].keys
    THEN "create_multimodal_bert_features"
    ELSE "create_bert_features"

\* part_fn(example_list=...): the possible results, one outcome per example.
RECURSIVE EncodeFrom(_, _, _, _)
EncodeFrom(pf, examples, cfg, i) ==
    IF i > Len(examples) THEN {<<>>}
    ELSE LET first == IF pf = "create_multimodal_bert_features"
                      THEN create_multimodal_bert_features(examples[i], cfg)
                      ELSE create_bert_features(examples[i], cfg)
         IN  {<<o>> \o rest : o \in first,
                              rest \in EncodeFrom(pf, examples, cfg, i + 1)}

EncodeAll(pf, examples, cfg) == EncodeFrom(pf, examples, cfg, 1)

PadTo(v, n) == v \o Repeat(0, n - Len(v))

\* PaddedBatch that stacks the elements without padding them.
PaddedBatchNoPad(elems) == elems

RECURSIVE MaxOf(_)
MaxOf(S) == IF S = {} THEN 0
            ELSE LET x == CHOOSE y \in S : TRUE
                 IN  Max(x, MaxOf(S \ {x}))

\* padded_batch with every dimension unknown: each feature of each element
\* is padded with zeros to the longest value of that feature in the batch.
PaddedBatch(elems) ==
    LET longest(k) == MaxOf({Len(elems[i].rec[k]) : i \in 1..Len(elems)})
    IN  [i \in 1..Len(elems) |->
            [src |-> elems[i].src,
             rec |-> [k \in DOMAIN elems[i].rec |->
                         PadTo(elems[i].rec[k], longest(k))]]]

PredictInit ==
    /\ fn = "predict_input_fn"
    /\ config \in PredictConfigs
    /\ mode = "predict"
    /\ input_file_or_list \in PredictArgs
    /\ inputs = <<>>
    /\ pc = "new"
    /\ raised = ""
    /\ pos = 0
    /\ NoServing /\ NoPredict /\ NoFiles /\ NoStream
    /\ batches = <<>>

\* The call predict_input_fn(input_file_or_list, config), lines 91-129.
PredictInputFn ==
    /\ fn = "predict_input_fn"
    /\ pc = "new"
    /\ LET ins == ResolveInputs(input_file_or_list)
       IN  /\ inputs' = ins
           /\ IF Len(ins) = 0
              THEN \* inputs[0] raises IndexError
                   /\ raised' = "dispatch"
                   /\ pc' = "error"
                   /\ UNCHANGED <<predictVars, stages, batch_size_used>>
              ELSE /\ part_fn' = SelectEncoder(ins)
                   /\ example_list' = ins
                   /\ \E dl \in EncodeAll(part_fn', ins, config) :
                        IF \E i \in 1..Len(dl) : ~dl[i].ok
                        THEN /\ raised' = "encoder"
                             /\ pc' = "error"
                             /\ data_list' = <<>>
                             /\ UNCHANGED <<stages, batch_size_used>>
                        ELSE /\ raised' = ""
                             /\ pc' = "iterating"
                             /\ data_list' = [i \in 1..Len(dl) |-> dl[i].rec]
                             /\ stages' = <<"from_generator", "padded_batch">>
                             /\ batch_size_used' = config.batch_size
    /\ UNCHANGED <<callVars, input_file_or_list, pos, servingVars, fileVars,
                   dataset_dict, cursor, sampled, shuffleBuf, toBatch, open,
                   batches>>

\* PredictTake that lets a batch grow one element past batch_size.
PredictTakeOneMore(n, p, b) == IF p + b + 1 <= n THEN b + 1 ELSE n - p

\* The elements the generator hands over for the next batch: at most
\* batch_size of them.
PredictTake(n, p, b) == IF p + b <= n THEN b ELSE n - p

\* One batch is pulled from the dataset: from_generator checks every element
\* against the structure inferred from data_list[0] (line 119) and
\* padded_batch pads and stacks up to batch_size of them.
PredictNextBatch ==
    /\ fn = "predict_input_fn"
    /\ pc = "iterating"
    /\ pos < Len(data_list)
    /\ LET n == PredictTake(Len(data_list), pos, batch_size_used)
           elems == [i \in 1..n |-> [src |-> pos + i, rec |-> data_list[pos + i]]]
       IN  IF \E i \in 1..n : DOMAIN elems[i].rec # DOMAIN data_list[1]
           THEN /\ raised' = "generator"
                /\ pc' = "error"
                /\ UNCHANGED <<pos, batches>>
           ELSE /\ batches' = Append(batches, PaddedBatch(elems))
                /\ pos' = pos + n
                /\ UNCHANGED <<raised, pc>>
    /\ UNCHANGED <<callVars, input_file_or_list, inputs, servingVars,
                   predictVars, fileVars, streamVars>>

\* The generator is exhausted.
PredictEnd ==
    /\ fn = "predict_input_fn"
    /\ pc = "iterating"
    /\ pos = Len(data_list)
    /\ pc' = "exhausted"
    /\ UNCHANGED <<callVars, raised, inputVars, servingVars, predictVars,
                   fileVars, streamVars, batches>>

PredictNext == PredictInputFn \/ PredictNextBatch \/ PredictEnd

SpecPredict == PredictInit /\ [][PredictNext]_vars

\* ---------------------------------------------------- train_eval_input_fn
\* The examples of a task: example i has TaskTokens(t, i) words.
TaskShift(t) == IF t = "t1" THEN 1 ELSE 2

TaskTokens(t, i) == (i + TaskShift(t) - 1) % (MaxTokens + 1)

\* bucket_boundaries, and for each the bucket_batch_sizes tried with it: one
\* size for every bucket, or size 1 for the first bucket and the largest
\* size for the others.
BucketSizes(n) ==
    {[i \in 1..n |-> s] : s \in 1..MaxBatch}
    \cup {[i \in 1..n |-> IF i = 1 THEN 1 ELSE MaxBatch]}

BucketConfigs ==
    {[bucket_boundaries |-> bb, bucket_batch_sizes |-> sz] :
        bb \in {<<3>>}, sz \in BucketSizes(2)}
    \cup {[bucket_boundaries |-> bb, bucket_batch_sizes |-> sz] :
        bb \in {<<3, 4>>}, sz \in BucketSizes(3)}

\* Without dynamic padding the bucket options are not set.
NoBuckets == [bucket_boundaries |-> <<>>, bucket_batch_sizes |-> <<>>]

\* Fixed-size batching with every batch size, bucketing with the smallest
\* and the largest; the smallest and the largest shuffle buffer.
TrainConfigs ==
    {[batch_size |-> b, shuffle_buffer |-> sb, dynamic_padding |-> dp,
      bucket_boundaries |-> bc.bucket_boundaries,
      bucket_batch_sizes |-> bc.bucket_batch_sizes,
      max_seq_len |-> MaxSeqLen,
      data_num |-> dn] :
        b \in 1..MaxBatch, sb \in {1, MaxShuffle}, dp \in BOOLEAN,
        bc \in BucketConfigs \cup {NoBuckets},
        dn \in [Tasks -> 1..MaxRecords]}

LabelKey(t) == t \o "_label_ids"

\* The label features of an example of task t: its own label, and a dummy
\* label for every other configured task.
LabelFeatures(t) ==
    [k \in {LabelKey(u) : u \in Tasks} |->
        IF k = LabelKey(t) THEN <<TaskShift(t)>> ELSE <<0>>]

\* The records the writer produces for task t.
TaskRecords(t, cfg) ==
    [i \in 1..cfg.data_num[t] |->
        DictUpdate(TextFeatures(Text(TaskTokens(t, i)), cfg.max_seq_len,
                                cfg.dynamic_padding),
                   LabelFeatures(t))]

\* A record file: its state and its records.
ValidFile(t, cfg) == [state |-> "valid", records |-> TaskRecords(t, cfg)]

AbsentFile == [state |-> "absent", records |-> <<>>]

CorruptFile == [state |-> "corrupt", records |-> <<>>]

\* write_tfrecord: a file that exists and is valid is left alone, any other
\* is written.
write_tfrecord(files, cfg) ==
    [t \in Tasks |->
        IF files[t].state = "valid" THEN files[t] ELSE ValidFile(t, cfg)]

\* read_tfrecord: the possible results.  A missing or invalid file raises;
\* what a mode other than 'train' and 'eval' does is not fixed by this file.
read_tfrecord(files, m) ==
    IF \E t \in Tasks : files[t].state # "valid"
    THEN {[ok |-> FALSE, files |-> files, datasets |-> [t \in Tasks |-> <<>>]]}
    ELSE {[ok |-> TRUE, files |-> files,
           datasets |-> [t \in Tasks |-> files[t].records]]}
         \cup IF m \in {"train", "eval"} THEN {}
              ELSE {[ok |-> FALSE, files |-> files,
                     datasets |-> [t \in Tasks |-> <<>>]]}

\* WriteAndRead with the reader called before the writer.
ReadBeforeWrite(files, cfg, m) ==
    {IF r.ok THEN [r EXCEPT !.files = write_tfrecord(files, cfg)] ELSE r :
        r \in read_tfrecord(files, m)}

\* Lines 45-47: the writer, then the reader on what the writer left.
WriteAndRead(files, cfg, m) == read_tfrecord(write_tfrecord(files, cfg), m)

\* BuildStages with the shuffle applied in every mode.
BuildStagesShuffleAlways(cfg, m) ==
    [stages |-> <<"sample_from_datasets", "shuffle", "prefetch">>
                \o (IF cfg.dynamic_padding
                    THEN <<"bucket_by_sequence_length">> ELSE <<"batch">>),
     batch_size |-> IF cfg.dynamic_padding THEN 0
                    ELSE IF m = "train" THEN cfg.batch_size
                    ELSE cfg.batch_size * 2]

\* BuildStages with the training batch size in every mode.
BuildStagesSameBatch(cfg, m) ==
    [stages |-> <<"sample_from_datasets">>
                \o (IF m = "train" THEN <<"shuffle">> ELSE <<>>)
                \o <<"prefetch">>
                \o (IF cfg.dynamic_padding
                    THEN <<"bucket_by_sequence_length">> ELSE <<"batch">>),
     batch_size |-> IF cfg.dynamic_padding THEN 0 ELSE cfg.batch_size]

\* Lines 49-67: the transformations applied to the dataset, in order, and
\* the argument of dataset.batch (0 when bucketing is used instead).
BuildStages(cfg, m) ==
    [stages |-> <<"sample_from_datasets">>
                \o (IF m = "train" THEN <<"shuffle">> ELSE <<>>)
                \o <<"prefetch">>
                \o (IF cfg.dynamic_padding
                    THEN <<"bucket_by_sequence_length">> ELSE <<"batch">>),
     batch_size |-> IF cfg.dynamic_padding THEN 0
                    ELSE IF m = "train" THEN cfg.batch_size
                    ELSE cfg.batch_size * 2]

HasStage(name) == \E i \in 1..Len(stages) : stages[i] = name

\* sample_from_datasets requires one structure for all its datasets.
SameStructure(ds) ==
    \A t, u \in Tasks : \A i \in 1..Len(ds[t]) : \A j \in 1..Len(ds[u]) :
        DOMAIN ds[t][i] = DOMAIN ds[u][j]

Modes == {"train", "eval", "predict"}

TrainEvalInit ==
    /\ fn = "train_eval_input_fn"
    /\ config \in TrainConfigs
    /\ config.dynamic_padding = (config.bucket_boundaries # <<>>)
    /\ (config.dynamic_padding => config.batch_size \in {1, MaxBatch})
    /\ mode \in Modes
    /\ pc = "idle"
    /\ raised = ""
    /\ NoInput /\ NoServing /\ NoPredict /\ NoStream
    /\ persisted \in [Tasks -> {AbsentFile, CorruptFile} \cup
                               {ValidFile(t, config) : t \in Tasks}]
    /\ \A t \in Tasks : persisted[t].state = "valid"
                           => persisted[t] = ValidFile(t, config)
    /\ calls = 0
    /\ readLog = <<>>
    /\ batches = <<>>

\* The call train_eval_input_fn(params, mode), lines 45-69.  The dataset it
\* returns is lazy: nothing is read until it is iterated.
TrainEvalInputFn ==
    /\ fn = "train_eval_input_fn"
    /\ pc \in {"idle", "built", "exhausted"}
    /\ calls < 2
    /\ calls' = calls + 1
    /\ \E r \in WriteAndRead(persisted, config, mode) :
        /\ persisted' = r.files
        /\ IF ~r.ok
           THEN /\ raised' = "read_tfrecord"
                /\ pc' = "error"
                /\ UNCHANGED <<readLog, dataset_dict, stages, batch_size_used,
                               open>>
           ELSE /\ readLog' = Append(readLog, r.datasets)
                /\ dataset_dict' = r.datasets
                /\ IF ~SameStructure(r.datasets)
                   THEN /\ raised' = "sample_from_datasets"
                        /\ pc' = "error"
                        /\ UNCHANGED <<stages, batch_size_used, open>>
                   ELSE LET built == BuildStages(config, mode)
                        IN  /\ stages' = built.stages
                            /\ batch_size_used' = built.batch_size
                            /\ open' = [i \in 1..Len(config.bucket_boundaries) + 1
                                           |-> <<>>]
                            /\ raised' = ""
                            /\ pc' = "built"
    /\ cursor' = [t \in Tasks |-> 0]
    /\ sampled' = <<>>
    /\ shuffleBuf' = {}
    /\ toBatch' = <<>>
    /\ batches' = <<>>
    /\ UNCHANGED <<callVars, inputVars, servingVars, predictVars>>

\* element_length_func on the label of the first task instead of input_ids.
element_length_func_label(yield_dict) == Len(yield_dict[LabelKey("t1")])

\* Lines 22-23: tf.shape(yield_dict['input_ids'])[0].
element_length_func(yield_dict) == Len(yield_dict["input_ids"])

\* bucket_by_sequence_length: bucket i holds the lengths from boundary i-1
\* (included) to boundary i (excluded).
BucketOf(len, boundaries) ==
    1 + Cardinality({i \in 1..Len(boundaries) : boundaries[i] <= len})

Bucketing == HasStage("bucket_by_sequence_length")

\* The slot of the batching stage an element goes to, and the size at which
\* the slot is emitted.
SlotOf(e) ==
    IF Bucketing
    THEN BucketOf(element_length_func(e.rec), config.bucket_boundaries)
    ELSE 1

SlotSize(slot) ==
    IF Bucketing THEN config.bucket_batch_sizes[slot] ELSE batch_size_used

\* dataset.batch stacks its elements, which need equal shapes.
SameShapes(elems) ==
    \A i \in 1..Len(elems) : \A k \in DOMAIN elems[i].rec :
        Len(elems[i].rec[k]) = Len(elems[1].rec[k])

\* The batch made of the elements of a slot: padded to the longest element
\* under bucketing, stacked as they are otherwise.
MakeBatch(elems) == IF Bucketing THEN PaddedBatch(elems) ELSE elems

\* An element reaches the batching stage (after prefetch, which keeps the
\* order): it joins its slot, and a full slot is emitted as a batch.
Deliver(e) ==
    LET slot == SlotOf(e)
        full == Append(open[slot], e)
    IN  /\ toBatch' = Append(toBatch, e)
        /\ IF Len(full) < SlotSize(slot)
           THEN /\ open' = [open EXCEPT ![slot] = full]
                /\ pc' = "iterating"
                /\ UNCHANGED <<batches, raised>>
           ELSE IF Bucketing \/ SameShapes(full)
           THEN /\ open' = [open EXCEPT ![slot] = <<>>]
                /\ batches' = Append(batches, MakeBatch(full))
                /\ pc' = "iterating"
                /\ UNCHANGED raised
           ELSE /\ raised' = "batch"
                /\ pc' = "error"
                /\ UNCHANGED <<open, batches>>

\* SampleChoices that ends the stream as soon as one dataset is exhausted.
SampleChoicesStopOnEmpty(ds, cur) ==
    IF \E t \in Tasks : cur[t] >= Len(ds[t]) THEN {}
    ELSE Tasks

\* sample_from_datasets: the datasets the next element may be drawn from,
\* every one that still has elements.
SampleChoices(ds, cur) == {t \in Tasks : cur[t] < Len(ds[t])}

\* sample_from_datasets draws the next element of a randomly chosen dataset;
\* it enters the shuffle buffer when there is a shuffle stage, and goes on
\* to the batching stage otherwise.
SampleNext ==
    /\ fn = "train_eval_input_fn"
    /\ pc \in {"built", "iterating"}
    /\ \E t \in SampleChoices(dataset_dict, cursor) :
        LET e == [src |-> <<t, cursor[t] + 1>>,
                  rec |-> dataset_dict[t][cursor[t] + 1]]
        IN  /\ cursor' = [cursor EXCEPT ![t] = @ + 1]
            /\ sampled' = Append(sampled, e)
            /\ IF HasStage("shuffle")
               THEN /\ Cardinality(shuffleBuf) < config.shuffle_buffer
                    /\ shuffleBuf' = shuffleBuf \cup {e}
                    /\ pc' = "iterating"
                    /\ UNCHANGED <<toBatch, open, batches, raised>>
               ELSE /\ Deliver(e)
                    /\ UNCHANGED shuffleBuf
    /\ UNCHANGED <<callVars, inputVars, servingVars, predictVars, fileVars,
                   dataset_dict, stages, batch_size_used>>

\* shuffle hands on a random element of its buffer, once the buffer is full
\* or its input is exhausted.
ShuffleNext ==
    /\ fn = "train_eval_input_fn"
    /\ pc \in {"built", "iterating"}
    /\ HasStage("shuffle")
    /\ \/ Cardinality(shuffleBuf) = config.shuffle_buffer
       \/ SampleChoices(dataset_dict, cursor) = {}
    /\ \E e \in shuffleBuf :
        /\ shuffleBuf' = shuffleBuf \ {e}
        /\ Deliver(e)
    /\ UNCHANGED <<callVars, inputVars, servingVars, predictVars, fileVars,
                   dataset_dict, stages, batch_size_used, cursor, sampled>>

\* The unfinished batches of the slots from i on, in slot order.
RECURSIVE Remainders(_, _)
Remainders(op, i) ==
    IF i > Len(op) THEN <<>>
    ELSE (IF op[i] = <<>> THEN <<>> ELSE <<MakeBatch(op[i])>>)
         \o Remainders(op, i + 1)

\* The input is exhausted: every unfinished batch is emitted as it is
\* (drop_remainder is not set).
EndOfInput ==
    /\ fn = "train_eval_input_fn"
    /\ pc \in {"built", "iterating"}
    /\ SampleChoices(dataset_dict, cursor) = {}
    /\ shuffleBuf = {}
    /\ batches' = batches \o Remainders(open, 1)
    /\ open' = [i \in 1..Len(open) |-> <<>>]
    /\ pc' = "exhausted"
    /\ UNCHANGED <<callVars, raised, inputVars, servingVars, predictVars,
                   fileVars, dataset_dict, stages, batch_size_used, cursor,
                   sampled, shuffleBuf, toBatch>>

TrainEvalNext == TrainEvalInputFn \/ SampleNext \/ ShuffleNext \/ EndOfInput

SpecTrainEval == TrainEvalInit /\ [][TrainEvalNext]_vars

\* ------------------------------------------------------------ all of it
Init == ServingInit \/ PredictInit \/ TrainEvalInit

Next == ServingNext \/ PredictNext \/ TrainEvalNext

Spec == Init /\ [][Next]_vars

\* ---------------------------------------------------------------- claims
KeylessDict(e) == e.kind = "dict" /\ "a" \notin e.keys

\* C3: the encoder is selected from the first input element only: the
\* multimodal encoder when it is a dictionary without key 'a', the standard
\* encoder for a string, a dictionary with key 'a' and any other type; the
\* selected encoder is given the whole input list, and the selection raises
\* no error.
C3_EncoderFromFirstElement ==
    (fn = "predict_input_fn" /\ pc # "new" /\ Len(inputs) > 0) =>
        /\ raised # "dispatch"
        /\ example_list = inputs
        /\ (KeylessDict(inputs[1])
               => part_fn = "create_multimodal_bert_features")
        /\ (inputs[1].kind = "str" => part_fn = "create_bert_features")
        /\ (inputs[1].kind = "dict" /\ "a" \in inputs[1].keys
               => part_fn = "create_bert_features")
        /\ (inputs[1].kind = "other" => part_fn = "create_bert_features")

\* A list whose first element is of an unsupported type and whose second is
\* a dictionary without key 'a' went to the standard encoder as a whole.
C3_Witness ==
    /\ fn = "predict_input_fn"
    /\ pc # "new"
    /\ Len(inputs) >= 2
    /\ inputs[1].kind = "other"
    /\ KeylessDict(inputs[2])
    /\ part_fn = "create_bert_features"
    /\ example_list = inputs

Ceil(n, b) == (n + b - 1) \div b

\* The source indices of the records of all batches, in batch order.
RECURSIVE FlatSrc(_)
FlatSrc(bs) ==
    IF bs = <<>> THEN <<>>
    ELSE [i \in 1..Len(bs[1]) |-> bs[1][i].src] \o FlatSrc(Tail(bs))

\* rec is v followed by zeros only.
IsPaddingOf(rec, v) ==
    /\ Len(rec) >= Len(v)
    /\ \A i \in 1..Len(rec) : rec[i] = IF i <= Len(v) THEN v[i] ELSE 0

\* C4: for n encoded records and batch size b no batch holds more than b
\* records, every record is in exactly one batch, in input order and with
\* its own values, all records of a batch have one key set, and the
\* exhausted dataset has produced ceil(n/b) batches; two plain strings with
\* b >= 2 give one batch of two records.
C4_PredictBatches ==
    fn = "predict_input_fn" =>
        /\ \A j \in 1..Len(batches) :
              /\ Len(batches[j]) >= 1
              /\ Len(batches[j]) <= config.batch_size
              /\ \A i \in 1..Len(batches[j]) :
                    /\ DOMAIN batches[j][i].rec = DOMAIN batches[j][1].rec
                    /\ DOMAIN batches[j][i].rec
                          = DOMAIN data_list[batches[j][i].src]
                    /\ \A k \in DOMAIN batches[j][i].rec :
                          IsPaddingOf(batches[j][i].rec[k],
                                      data_list[batches[j][i].src][k])
        /\ FlatSrc(batches) = [i \in 1..pos |-> i]
        /\ (pc = "exhausted" =>
              /\ pos = Len(data_list)
              /\ Len(batches) = Ceil(Len(data_list), config.batch_size))
        /\ ((pc = "exhausted" /\ Len(inputs) = 2 /\ config.batch_size >= 2
                /\ (\A i \in 1..Len(inputs) : inputs[i].kind = "str"))
               => (Len(batches) = 1 /\ Len(batches[1]) = 2))

\* Three records with batch size 2: a full batch, then a batch of one.
C4_Witness ==
    /\ fn = "predict_input_fn"
    /\ pc = "exhausted"
    /\ Len(data_list) = 3
    /\ config.batch_size = 2
    /\ Len(batches) = 2
    /\ Len(batches[1]) = 2
    /\ Len(batches[2]) = 1

Built == fn = "train_eval_input_fn" /\ pc \in {"built", "iterating", "exhausted"}

\* C1: without dynamic padding the batch size given to dataset.batch is
\* batch_size in train mode and 2 * batch_size in every other mode, and the
\* batches have that size (the last one of a pass may be smaller).
C1_BatchSizeByMode ==
    (Built /\ ~config.dynamic_padding) =>
        /\ HasStage("batch")
        /\ (mode = "train" => batch_size_used = config.batch_size)
        /\ (mode # "train" => batch_size_used = 2 * config.batch_size)
        /\ \A j \in 1..Len(batches) :
              /\ Len(batches[j]) <= batch_size_used
              /\ (j < Len(batches) \/ pc # "exhausted"
                    => Len(batches[j]) = batch_size_used)

\* A mode that is neither 'train' nor 'eval' produced a batch of twice the
\* configured size.
C1_Witness ==
    /\ Built
    /\ ~config.dynamic_padding
    /\ mode = "predict"
    /\ config.batch_size = MaxBatch
    /\ Len(batches) >= 1
    /\ Len(batches[1]) = 2 * MaxBatch

FeatureKeys == {"input_ids", "input_mask", "segment_ids"}

\* C5: in every batch of the train/eval pipeline and of the predict
\* pipeline all records have the same keys, the values of a key have one
\* length, and input_ids, input_mask and segment_ids have the same length.
C5_BatchKeysAndLengths ==
    fn \in {"train_eval_input_fn", "predict_input_fn"} =>
        \A j \in 1..Len(batches) : \A i \in 1..Len(batches[j]) :
            /\ DOMAIN batches[j][i].rec = DOMAIN batches[j][1].rec
            /\ FeatureKeys \subseteq DOMAIN batches[j][i].rec
            /\ \A k \in DOMAIN batches[j][i].rec :
                  Len(batches[j][i].rec[k]) = Len(batches[j][1].rec[k])
            /\ \A k \in FeatureKeys :
                  Len(batches[j][i].rec[k])
                      = Len(batches[j][1].rec["input_ids"])

\* A predict batch of two records that were encoded with different lengths.
C5_Witness ==
    /\ fn = "predict_input_fn"
    /\ Len(batches) >= 1
    /\ Len(batches[1]) = 2
    /\ Len(data_list[1]["input_ids"]) # Len(data_list[2]["input_ids"])

\* What holds after every call in the modes 'train' and 'eval': the call
\* did not fail, every record file is valid and the datasets are its
\* records; the second call read what the first read.
C6_AfterCall ==
    (fn = "train_eval_input_fn" /\ mode \in {"train", "eval"}) =>
        /\ (calls >= 1 =>
              /\ pc # "error"
              /\ Len(readLog) = calls
              /\ \A t \in Tasks :
                    /\ persisted[t].state = "valid"
                    /\ dataset_dict[t] = persisted[t].records)
        /\ (calls = 2 => readLog[2] = readLog[1])

\* C6: a second call with the same configuration and mode ('train' or
\* 'eval') does not fail and reads what the first call read: every call
\* leaves every record file valid and reads the datasets from the files,
\* and no step changes a record file that is valid.
C6_SecondCallReadsSame ==
    /\ []C6_AfterCall
    /\ [][\A t \in Tasks : persisted[t].state = "valid"
                              => persisted'[t] = persisted[t]]_vars

\* Two calls were made: the first found no file of t1 and a valid file of
\* t2.
C6_Witness ==
    /\ fn = "train_eval_input_fn"
    /\ mode = "eval"
    /\ calls = 2
    /\ pc = "built"
    /\ Len(readLog) = 2
    /\ readLog[2]["t1"] # <<>>

IsBatchStage(name) == name \in {"batch", "bucket_by_sequence_length"}

\* The elements of all batches, in batch order.
RECURSIVE Flat(_)
Flat(bs) == IF bs = <<>> THEN <<>> ELSE bs[1] \o Flat(Tail(bs))

\* C7: the shuffle stage is applied in train mode only.  In every other mode
\* there is no shuffle stage and the sampled stream reaches the batching
\* stage in its order.  In train mode the shuffle comes before the batching
\* stage, holds at most shuffle_buffer elements and loses none; with
\* fixed-size batching the batches are consecutive runs of the stream that
\* left the shuffle.
C7_ShuffleTrainOnly ==
    Built =>
        /\ stages[1] = "sample_from_datasets"
        /\ IsBatchStage(stages[Len(stages)])
        /\ (mode # "train" =>
              /\ ~HasStage("shuffle")
              /\ shuffleBuf = {}
              /\ toBatch = sampled)
        /\ (mode = "train" =>
              /\ stages[2] = "shuffle"
              /\ \A i \in 1..Len(stages) : IsBatchStage(stages[i]) => i > 2
              /\ Cardinality(shuffleBuf) <= config.shuffle_buffer
              /\ Range(toBatch) \cup shuffleBuf = Range(sampled)
              /\ Len(toBatch) + Cardinality(shuffleBuf) = Len(sampled))
        /\ (~config.dynamic_padding =>
              Flat(batches) \o open[1] = toBatch)

\* The position of the element with source src in a stream.
PosIn(stream, src) == CHOOSE i \in 1..Len(stream) : stream[i].src = src

\* In train mode a batch holds the first and the third sampled example.
C7_Witness ==
    /\ Built
    /\ mode = "train"
    /\ ~config.dynamic_padding
    /\ Len(batches) >= 1
    /\ Len(batches[1]) = 2
    /\ PosIn(sampled, batches[1][1].src) = 1
    /\ PosIn(sampled, batches[1][2].src) = 3

\* The length of input_ids of example i of task t as the writer encodes it
\* under dynamic padding: its words and the two special tokens.
DynamicLength(t, i) ==
    (IF TaskTokens(t, i) > config.max_seq_len - 2
     THEN config.max_seq_len - 2 ELSE TaskTokens(t, i)) + 2

\* Length len lies in the interval of bucket slot.
InBucket(len, slot) ==
    /\ (slot > 1 => config.bucket_boundaries[slot - 1] <= len)
    /\ (slot <= Len(config.bucket_boundaries)
           => len < config.bucket_boundaries[slot])

\* C8: with dynamic padding the bucketing stage is used and dataset.batch is
\* not; the key of a record is the length of its input_ids; every batch
\* holds only records whose lengths lie in the interval of one bucket, and
\* at most that bucket's batch size of them (exactly that many before the
\* end of the input), whatever batch_size and mode are.
C8_BucketBatches ==
    (Built /\ config.dynamic_padding) =>
        /\ HasStage("bucket_by_sequence_length")
        /\ ~HasStage("batch")
        /\ batch_size_used = 0
        /\ \A i \in 1..Len(toBatch) :
              element_length_func(toBatch[i].rec)
                  = DynamicLength(toBatch[i].src[1], toBatch[i].src[2])
        /\ \A j \in 1..Len(batches) :
              \E slot \in 1..Len(config.bucket_boundaries) + 1 :
                  /\ \A i \in 1..Len(batches[j]) :
                        InBucket(DynamicLength(batches[j][i].src[1],
                                               batches[j][i].src[2]), slot)
                  /\ Len(batches[j]) <= config.bucket_batch_sizes[slot]
                  /\ (pc # "exhausted"
                        => Len(batches[j]) = config.bucket_batch_sizes[slot])

\* With batch_size 1 in train mode a bucket emitted a batch of two records
\* of different lengths.
C8_Witness ==
    /\ Built
    /\ config.dynamic_padding
    /\ mode = "train"
    /\ config.batch_size = 1
    /\ pc # "exhausted"
    /\ Len(batches) >= 1
    /\ Len(batches[1]) = 2
    /\ DynamicLength(batches[1][1].src[1], batches[1][1].src[2])
          # DynamicLength(batches[1][2].src[1], batches[1][2].src[2])

\* C10: every sampled record is the next record of exactly one task's
\* dataset, so the records of a task keep their order, and when the pass
\* ends every record of every task was sampled exactly once.
C10_SampledAcrossTasks ==
    Built =>
        /\ \A i \in 1..Len(sampled) :
              /\ sampled[i].src[1] \in Tasks
              /\ sampled[i].src[2] \in 1..Len(dataset_dict[sampled[i].src[1]])
              /\ sampled[i].rec
                    = dataset_dict[sampled[i].src[1]][sampled[i].src[2]]
        /\ \A t \in Tasks :
              LET FromTask(e) == e.src[1] = t
                  mine == SelectSeq(sampled, FromTask)
              IN  /\ Len(mine) = cursor[t]
                  /\ \A k \in 1..Len(mine) : mine[k].src = <<t, k>>
        /\ (pc = "exhausted" =>
              \A t \in Tasks : cursor[t] = Len(dataset_dict[t]))

\* A record of t2 was sampled between two records of t1.
C10_Witness ==
    /\ Built
    /\ Len(sampled) >= 3
    /\ sampled[1].src = <<"t1", 1>>
    /\ sampled[2].src = <<"t2", 1>>
    /\ sampled[3].src = <<"t1", 2>>

====
